---- MODULE Spec2Model ----
(***************************************************************************)
(* The Action protocol layer of ros2-client: the AsyncActionServer with    *)
(* its goal registry (src/src/action/mod.rs), the request streams it       *)
(* reads and the messages it writes.                                       *)
(***************************************************************************)
EXTENDS Integers, Sequences, FiniteSets, TLC

\* ---------------------------------------------------------------- bounds
\* Goal ids on the wire are 1..MaxGoalId; GoalId::ZERO is the wildcard 0.
MaxGoalId == 2
\* Time::now() reads 1..MaxTime; Time::ZERO is the wildcard 0.
MaxTime == 2
\* How many cancel requests the client side sends.
MaxCancelReqs == 1

\* As many goal requests and result requests as goal ids: a goal id may arrive
\* twice, and two goals may each be asked for their result.
MaxGoalReqs == MaxGoalId
MaxResultReqs == MaxGoalId
\* Longest caller-supplied goals_to_cancel list.
MaxCancelList == MaxGoalId

GoalIds == 1..MaxGoalId
\* What Time::now() may return: the wall clock is outside the program.
Times == 1..MaxTime
GoalIdZERO == 0
TimeZERO == 0
\* accepted_time: Option<Time>; None is NoTime.
NoTime == -1
\* Result payloads (A::ResultType), opaque to this layer.
Results == {"R1", "R2"}
\* How many samples a reader of the client keeps (the history depth of its QoS).
MaxInbox == 3
\* Request ids a polling client may ask for.
MaxPollId == 2

\* ------------------------------------------------- GoalStatusEnum, GoalEndStatus
Unknown == "Unknown"
Accepted == "Accepted"
Executing == "Executing"
Canceling == "Canceling"
Succeeded == "Succeeded"
Canceled == "Canceled"
Aborted == "Aborted"

GoalStatusEnum == {Unknown, Accepted, Executing, Canceling, Succeeded, Canceled, Aborted}
\* GoalEndStatus is an enum of its own: send_result_response translates it.
EndSucceeded == "GoalEndStatus::Succeeded"
EndAborted == "GoalEndStatus::Aborted"
EndCanceled == "GoalEndStatus::Canceled"
GoalEndStatus == {EndSucceeded, EndAborted, EndCanceled}

\* #[repr(i8)] of GoalStatusEnum: what Serialize_repr writes and Deserialize_repr reads.
GoalStatusRepr(status) ==
  CASE status = Unknown -> 0 [] status = Accepted -> 1 [] status = Executing -> 2
    [] status = Canceling -> 3 [] status = Succeeded -> 4 [] status = Canceled -> 5
    [] status = Aborted -> 6

GoalStatusFromRepr(n) == CHOOSE status \in GoalStatusEnum : GoalStatusRepr(status) = n

\* ------------------------------------------------------------------ state
VARIABLES
  goals,            \* AsyncActionServer.goals: BTreeMap<GoalId, AsyncGoal>
  result_requests,  \* AsyncActionServer.result_requests: BTreeMap<GoalId, RmwRequestId>
  goalQ,            \* goal requests written by clients, not yet read by the server
  resultQ,          \* result requests written, not yet read
  sent,             \* per service, how many requests clients have sent (the last request id)
  hNew,             \* NewGoalHandles the server owner holds (they are Copy: never used up)
  hAcc,             \* AcceptedGoalHandles held
  hExec,            \* ExecutingGoalHandles held
  hCancel,          \* request ids of the CancelHandles held (their goals are in ret)
  pc,               \* the async call that is suspended at an await, if any
  out,              \* messages the server call of the last step handed to DDS, in order
  ret,              \* what the server call of the last step returned
  goalResponded,    \* request ids of the goal requests a goal response was written for
  resultSent,       \* the goals for which a result response has been written
  discarded,        \* request ids of goal requests discarded as duplicates
  asked,            \* the goal id of each result request written, by request id
  inbox,            \* per reader the ActionClient has, the samples arrived and not taken
  cret,             \* what the client call of the last step returned
  stream            \* the status_stream the client holds, with what it has yielded

vars == <<goals, result_requests, goalQ, resultQ, sent, hNew, hAcc, hExec,
          hCancel, pc, out, ret, goalResponded, resultSent, discarded, asked,
          inbox, cret, stream>>

Idle == [op |-> "idle", goal |-> 0, status |-> Unknown, result |-> "none"]
\* ret: op is the call, goal and req the goal id and request id it was about, code
\* how it ended; for receive_cancel_request, goal and stamp are the request's GoalInfo
\* and handle_goals the goals of the CancelHandle returned; for
\* respond_to_cancel_requests, handle_goals is the goals_to_cancel it was given.
\* args are the (handle's goal, result_status, result) send_result_response was
\* called with.
NoRet == [op |-> "none", goal |-> 0, req |-> 0, stamp |-> 0, handle_goals |-> <<>>,
          code |-> "none", args |-> <<>>]

\* cret: op is the client call, id the request id or goal id it asked for, value what
\* it returned (<<>> is None, <<x>> is Some(x)), taken the sample the value came from
\* and dropped the samples it took and threw away.
NoCRet == [op |-> "none", id |-> 0, value |-> <<>>, taken |-> <<>>, dropped |-> <<>>]

\* No status_stream is held. A stream is for one goal_id; yielded are the statuses it
\* has yielded (a status yielded again is kept once), committed the statuses the
\* server gave that goal, in order.
NoStream == [goal_id |-> 0, yielded |-> <<>>, committed |-> <<>>]
Ret(op, g, r, code) == [NoRet EXCEPT !.op = op, !.goal = g, !.req = r, !.code = code]

\* AsyncActionServer::new over a fresh ActionServer: nothing received, nothing held.
ServerInit ==
  /\ goals = <<>>
  /\ result_requests = <<>>
  /\ goalQ = <<>>
  /\ resultQ = <<>>
  /\ sent = [goal |-> 0, result |-> 0, cancel |-> 0]
  /\ hNew = {}
  /\ hAcc = {}
  /\ hExec = {}
  /\ hCancel = {}
  /\ pc = Idle
  /\ out = <<>>
  /\ ret = NoRet
  /\ goalResponded = {}
  /\ resultSent = {}
  /\ discarded = {}
  /\ asked = <<>>

\* The server alone: no ActionClient reader is matched, samples go nowhere.
Init ==
  /\ ServerInit
  /\ inbox = <<>>
  /\ cret = NoCRet
  /\ stream = NoStream

\* ------------------------------------------------------------ helpers
\* BTreeMap iteration: the keys in ascending order.
RECURSIVE KeysAscending(_)
KeysAscending(S) ==
  IF S = {} THEN <<>>
  ELSE LET m == CHOOSE x \in S : \A y \in S : x <= y
       IN <<m>> \o KeysAscending(S \ {m})

\* BTreeMap::insert / entry().or_insert on a map kept as a function.
MapInsert(m, k, v) == [x \in (DOMAIN m) \cup {k} |-> IF x = k THEN v ELSE m[x]]

AsyncGoal(status, accepted_time) == [status |-> status, accepted_time |-> accepted_time]

\* --------------------------------------------------- messages handed to DDS
\* ok is the WriteResult of the write: FALSE when DDS refused the sample.
StatusMsg(list, ok) == [kind |-> "status", req |-> 0, body |-> list, ok |-> ok]
GoalResponseMsg(req, accepted, stamp, ok) ==
  [kind |-> "goal_response", req |-> req,
   body |-> [accepted |-> accepted, stamp |-> stamp], ok |-> ok]
ResultMsg(req, status, result, ok) ==
  [kind |-> "result", req |-> req, body |-> [status |-> status, result |-> result], ok |-> ok]
FeedbackMsg(g, ok) == [kind |-> "feedback", req |-> 0, body |-> [goal_id |-> g], ok |-> ok]
CancelResponseMsg(req, code, list, ok) ==
  [kind |-> "cancel_response", req |-> req,
   body |-> [return_code |-> code, goals_canceling |-> list], ok |-> ok]

\* The request ids of the messages of one kind among msgs that DDS took.
Delivered(msgs, kind) == {msgs[i].req : i \in {j \in DOMAIN msgs : msgs[j].kind = kind /\ msgs[j].ok}}

\* A publish_statuses that reports only the goals that were accepted.
GoalStatusArray_accepted_only(gs) ==
  LET keys == SelectSeq(KeysAscending(DOMAIN gs), LAMBDA g : gs[g].accepted_time # NoTime)
  IN [i \in 1..Len(keys) |->
        [goal_id |-> keys[i], stamp |-> gs[keys[i]].accepted_time,
         status |-> gs[keys[i]].status]]

\* A publish_statuses that stamps every entry with Time::ZERO.
GoalStatusArray_zero_stamp(gs) ==
  LET keys == KeysAscending(DOMAIN gs)
  IN [i \in 1..Len(keys) |->
        [goal_id |-> keys[i], stamp |-> TimeZERO, status |-> gs[keys[i]].status]]

\* publish_statuses: one GoalStatus per registry record, in key order; the stamp is
\* accepted_time.unwrap_or(Time::ZERO).
GoalStatusArray(gs) ==
  LET keys == KeysAscending(DOMAIN gs)
  IN [i \in 1..Len(keys) |->
        [goal_id |-> keys[i],
         stamp |-> IF gs[keys[i]].accepted_time = NoTime THEN TimeZERO
                   ELSE gs[keys[i]].accepted_time,
         status |-> gs[keys[i]].status]]

publish_statuses(gs, ok) == StatusMsg(GoalStatusArray(gs), ok)

\* ------------------------------------------------------------ the wire
\* The sample DDS carries for a message: the status goes as its i8. sent_as is not on
\* the wire: it keeps the arguments of the send_result_response that wrote a result.
Serialize(msg, args) ==
  CASE msg.kind = "status" ->
         [status_list |-> [i \in DOMAIN msg.body |->
            [goal_id |-> msg.body[i].goal_id, stamp |-> msg.body[i].stamp,
             status |-> GoalStatusRepr(msg.body[i].status)]]]
    [] msg.kind = "goal_response" ->
         [req |-> msg.req, accepted |-> msg.body.accepted, stamp |-> msg.body.stamp]
    [] msg.kind = "result" ->
         [req |-> msg.req, status |-> GoalStatusRepr(msg.body.status),
          result |-> msg.body.result, sent_as |-> args]
    [] msg.kind = "feedback" -> [goal_id |-> msg.body.goal_id, feedback |-> "F"]
    [] msg.kind = "cancel_response" ->
         [req |-> msg.req, return_code |-> msg.body.return_code,
          goals_canceling |-> msg.body.goals_canceling]

\* The readers of ib after the messages msgs were written, in order: a message that
\* DDS took reaches the reader of its kind, if the client has one.
RECURSIVE Arrive(_, _, _)
Arrive(ib, msgs, args) ==
  IF msgs = <<>> THEN ib
  ELSE LET m == Head(msgs)
           nxt == IF m.ok /\ m.kind \in DOMAIN ib
                  THEN [ib EXCEPT ![m.kind] = Append(@, Serialize(m, args))]
                  ELSE ib
       IN Arrive(nxt, Tail(msgs), args)

\* The stream s after the server moved the registry from gs to gs2: a status given to
\* the goal of the stream is committed.
Observe(s, gs, gs2) ==
  IF /\ s.goal_id \in DOMAIN gs2
     /\ (s.goal_id \in DOMAIN gs => gs2[s.goal_id].status # gs[s.goal_id].status)
  THEN [s EXCEPT !.committed = Append(@, gs2[s.goal_id].status)]
  ELSE s

\* What every step of the server side does to the client side: the messages written
\* arrive, as far as the readers have room.
Wire ==
  /\ inbox' = Arrive(inbox, out', ret'.args)
  /\ \A k \in DOMAIN inbox' : Len(inbox'[k]) <= MaxInbox
  /\ cret' = NoCRet
  /\ stream' = Observe(stream, goals, goals')

\* ------------------------------------------------------ client side (wire)
\* ActionClient::send_goal, or any writer on the goal request topic: the goal id is
\* whatever the writer chose, so the same id may arrive twice.
SendGoal(g, max) ==
  /\ sent.goal < max
  /\ sent' = [sent EXCEPT !.goal = @ + 1]
  /\ goalQ' = Append(goalQ, [req_id |-> sent.goal + 1, goal_id |-> g])
  /\ out' = <<>>
  /\ ret' = NoRet
  /\ UNCHANGED <<goals, result_requests, resultQ, hNew, hAcc, hExec, hCancel,
                 pc, goalResponded, resultSent, discarded, asked>>
  /\ Wire

\* ActionClient::request_result
RequestResult(g) ==
  /\ sent.result < MaxResultReqs
  /\ sent' = [sent EXCEPT !.result = @ + 1]
  /\ resultQ' = Append(resultQ, [req_id |-> sent.result + 1, goal_id |-> g])
  /\ asked' = Append(asked, g)
  /\ out' = <<>>
  /\ ret' = NoRet
  /\ UNCHANGED <<goals, result_requests, goalQ, hNew, hAcc, hExec, hCancel,
                 pc, goalResponded, resultSent, discarded>>
  /\ Wire

\* ------------------------------------------------------ AsyncActionServer
\* What a call does is a record: the registry after it (goals), the messages it
\* handed to DDS in order (out) and how it ended (code).
Outcome(gs, msgs, code) == [goals |-> gs, out |-> msgs, code |-> code]

\* A receive_new_goal that inserts without looking at the entry.
receive_new_goal_overwrite(gs, rq) ==
  [goals |-> MapInsert(gs, rq.goal_id, AsyncGoal(Unknown, NoTime)),
   handle |-> {[goal_id |-> rq.goal_id, req_id |-> rq.req_id]},
   code |-> "Ok"]

\* receive_new_goal, the match on self.goals.entry(goal_request.goal_id) for the
\* request rq: handle is the NewGoalHandle returned, if any.
receive_new_goal(gs, rq) ==
  IF rq.goal_id \notin DOMAIN gs
  THEN [goals |-> MapInsert(gs, rq.goal_id, AsyncGoal(Unknown, NoTime)),
        handle |-> {[goal_id |-> rq.goal_id, req_id |-> rq.req_id]},
        code |-> "Ok"]
  ELSE [goals |-> gs, handle |-> {}, code |-> "Pending"]

\* An accept_goal that sets the status and leaves the accepted_time unset.
accept_goal_no_time(gs, h, now, ws, wr) ==
  IF h.goal_id \notin DOMAIN gs THEN Outcome(gs, <<>>, "NoSuchGoal")
  ELSE IF gs[h.goal_id].status = Unknown
    THEN LET mut_o == [gs EXCEPT ![h.goal_id] = AsyncGoal(Accepted, NoTime)]
         IN Outcome(mut_o,
                    <<publish_statuses(mut_o, ws), GoalResponseMsg(h.req_id, TRUE, now, wr)>>,
                    IF wr THEN "Ok" ELSE "DDSWriteError")
  ELSE Outcome(gs, <<>>, "WrongGoalState")

\* An accept_goal that sends the response before it publishes the statuses.
accept_goal_reply_first(gs, h, now, ws, wr) ==
  IF h.goal_id \notin DOMAIN gs THEN Outcome(gs, <<>>, "NoSuchGoal")
  ELSE IF gs[h.goal_id].status = Unknown
    THEN LET mut_o == [gs EXCEPT ![h.goal_id] = AsyncGoal(Accepted, now)]
         IN Outcome(mut_o,
                    <<GoalResponseMsg(h.req_id, TRUE, now, wr), publish_statuses(mut_o, ws)>>,
                    IF wr THEN "Ok" ELSE "DDSWriteError")
  ELSE Outcome(gs, <<>>, "WrongGoalState")

\* An accept_goal that takes the transition back when the response is not written.
accept_goal_rollback(gs, h, now, ws, wr) ==
  IF h.goal_id \notin DOMAIN gs THEN Outcome(gs, <<>>, "NoSuchGoal")
  ELSE IF gs[h.goal_id].status = Unknown
    THEN LET mut_o == [gs EXCEPT ![h.goal_id] = AsyncGoal(Accepted, now)]
         IN Outcome(IF wr THEN mut_o ELSE gs,
                    <<publish_statuses(mut_o, ws), GoalResponseMsg(h.req_id, TRUE, now, wr)>>,
                    IF wr THEN "Ok" ELSE "DDSWriteError")
  ELSE Outcome(gs, <<>>, "WrongGoalState")

\* accept_goal. now is what Time::now() returns; ws and wr are the results of the
\* two DDS writes (the status array, the response).
accept_goal(gs, h, now, ws, wr) ==
  IF h.goal_id \notin DOMAIN gs THEN Outcome(gs, <<>>, "NoSuchGoal")
  ELSE IF gs[h.goal_id].status = Unknown
    THEN LET mut_o == [gs EXCEPT ![h.goal_id] = AsyncGoal(Accepted, now)]
         IN Outcome(mut_o,
                    <<publish_statuses(mut_o, ws), GoalResponseMsg(h.req_id, TRUE, now, wr)>>,
                    IF wr THEN "Ok" ELSE "DDSWriteError")
  ELSE Outcome(gs, <<>>, "WrongGoalState")

\* A reject_goal that takes the record of the goal out of the registry.
reject_goal_discards(gs, h, now, wr) ==
  IF h.goal_id \notin DOMAIN gs THEN Outcome(gs, <<>>, "NoSuchGoal")
  ELSE IF gs[h.goal_id].status = Unknown
    THEN Outcome([g \in DOMAIN gs \ {h.goal_id} |-> gs[g]],
                 <<GoalResponseMsg(h.req_id, FALSE, now, wr)>>,
                 IF wr THEN "Ok" ELSE "DDSWriteError")
  ELSE Outcome(gs, <<>>, "WrongGoalState")

\* A reject_goal that answers whatever the status of the goal is.
reject_goal_any_state(gs, h, now, wr) ==
  IF h.goal_id \notin DOMAIN gs THEN Outcome(gs, <<>>, "NoSuchGoal")
  ELSE Outcome(gs, <<GoalResponseMsg(h.req_id, FALSE, now, wr)>>,
               IF wr THEN "Ok" ELSE "DDSWriteError")

\* reject_goal
reject_goal(gs, h, now, wr) ==
  IF h.goal_id \notin DOMAIN gs THEN Outcome(gs, <<>>, "NoSuchGoal")
  ELSE IF gs[h.goal_id].status = Unknown
    THEN Outcome(gs, <<GoalResponseMsg(h.req_id, FALSE, now, wr)>>,
                 IF wr THEN "Ok" ELSE "DDSWriteError")
  ELSE Outcome(gs, <<>>, "WrongGoalState")

\* A start_executing_goal that returns the handle whatever the status is.
start_executing_goal_any_state(gs, g, ws) ==
  IF g \notin DOMAIN gs THEN Outcome(gs, <<>>, "NoSuchGoal")
  ELSE IF gs[g].status = Accepted
    THEN LET mut_o == [gs EXCEPT ![g].status = Executing]
         IN Outcome(mut_o, <<publish_statuses(mut_o, ws)>>, "Ok")
  ELSE Outcome(gs, <<>>, "Ok")

\* start_executing_goal
start_executing_goal(gs, g, ws) ==
  IF g \notin DOMAIN gs THEN Outcome(gs, <<>>, "NoSuchGoal")
  ELSE IF gs[g].status = Accepted
    THEN LET mut_o == [gs EXCEPT ![g].status = Executing]
         IN Outcome(mut_o, <<publish_statuses(mut_o, ws)>>, "Ok")
  ELSE Outcome(gs, <<>>, "WrongGoalState")

\* A publish_feedback that also publishes for a goal that is Canceling.
publish_feedback_while_canceling(gs, g, wr) ==
  IF g \notin DOMAIN gs THEN Outcome(gs, <<>>, "NoSuchGoal")
  ELSE IF gs[g].status \in {Executing, Canceling}
    THEN Outcome(gs, <<FeedbackMsg(g, wr)>>, IF wr THEN "Ok" ELSE "DDSWriteError")
  ELSE Outcome(gs, <<>>, "WrongGoalState")

\* publish_feedback
publish_feedback(gs, g, wr) ==
  IF g \notin DOMAIN gs THEN Outcome(gs, <<>>, "NoSuchGoal")
  ELSE IF gs[g].status = Executing
    THEN Outcome(gs, <<FeedbackMsg(g, wr)>>, IF wr THEN "Ok" ELSE "DDSWriteError")
  ELSE Outcome(gs, <<>>, "WrongGoalState")

\* send_result_response: the translation of the GoalEndStatus argument.
result_status_of(end_status) ==
  CASE end_status = EndSucceeded -> Succeeded
    [] end_status = EndAborted -> Aborted
    [] end_status = EndCanceled -> Canceled

\* A send_result_response that publishes the statuses before it updates the entry.
send_result_response_stale_status(gs, g, req_id, result_status, result, ws, wr) ==
  IF g \notin DOMAIN gs THEN Outcome(gs, <<>>, "NoSuchGoal")
  ELSE IF gs[g].status \in {Accepted, Executing, Canceling}
    THEN LET mut_o == [gs EXCEPT ![g].status = result_status]
         IN Outcome(mut_o,
                    <<publish_statuses(gs, ws), ResultMsg(req_id, result_status, result, wr)>>,
                    IF wr THEN "Ok" ELSE "DDSWriteError")
  ELSE Outcome(gs, <<>>, "WrongGoalState")

\* A send_result_response that proceeds from Executing and Canceling only.
send_result_response_not_accepted(gs, g, req_id, result_status, result, ws, wr) ==
  IF g \notin DOMAIN gs THEN Outcome(gs, <<>>, "NoSuchGoal")
  ELSE IF gs[g].status \in {Executing, Canceling}
    THEN LET mut_o == [gs EXCEPT ![g].status = result_status]
         IN Outcome(mut_o,
                    <<publish_statuses(mut_o, ws), ResultMsg(req_id, result_status, result, wr)>>,
                    IF wr THEN "Ok" ELSE "DDSWriteError")
  ELSE Outcome(gs, <<>>, "WrongGoalState")

\* send_result_response, from the match on the registry entry to its return: the
\* request id req_id has been found.
send_result_response(gs, g, req_id, result_status, result, ws, wr) ==
  IF g \notin DOMAIN gs THEN Outcome(gs, <<>>, "NoSuchGoal")
  ELSE IF gs[g].status \in {Accepted, Executing, Canceling}
    THEN LET mut_o == [gs EXCEPT ![g].status = result_status]
         IN Outcome(mut_o,
                    <<publish_statuses(mut_o, ws), ResultMsg(req_id, result_status, result, wr)>>,
                    IF wr THEN "Ok" ELSE "DDSWriteError")
  ELSE Outcome(gs, <<>>, "WrongGoalState")

\* A loop that takes the first result request it reads, whatever goal it asks for.
is_awaited_request_any(rq, handle_goal) == rq.goal_id \in GoalIds

\* send_result_response, the loop on the result request stream: whether the request
\* read is the one for the handle's goal.
is_awaited_request(rq, handle_goal) == rq.goal_id = handle_goal

\* An abort_goal that also clears the accepted_time.
abort_goal_clears_time(gs, g, ws) ==
  IF g \notin DOMAIN gs THEN Outcome(gs, <<>>, "NoSuchGoal")
  ELSE IF gs[g].status \in {Accepted, Executing}
    THEN LET mut_o == [gs EXCEPT ![g] = AsyncGoal(Aborted, NoTime)]
         IN Outcome(mut_o, <<publish_statuses(mut_o, ws)>>, "Ok")
  ELSE Outcome(gs, <<>>, "WrongGoalState")

\* An abort_goal that updates the entry before it looks at the status.
abort_goal_update_first(gs, g, ws) ==
  IF g \notin DOMAIN gs THEN Outcome(gs, <<>>, "NoSuchGoal")
  ELSE LET mut_o == [gs EXCEPT ![g].status = Aborted]
       IN IF gs[g].status \in {Accepted, Executing}
          THEN Outcome(mut_o, <<publish_statuses(mut_o, ws)>>, "Ok")
          ELSE Outcome(mut_o, <<>>, "WrongGoalState")

\* An abort_goal that also aborts a goal that is Canceling.
abort_goal_from_canceling(gs, g, ws) ==
  IF g \notin DOMAIN gs THEN Outcome(gs, <<>>, "NoSuchGoal")
  ELSE IF gs[g].status \in {Accepted, Executing, Canceling}
    THEN LET mut_o == [gs EXCEPT ![g].status = Aborted]
         IN Outcome(mut_o, <<publish_statuses(mut_o, ws)>>, "Ok")
  ELSE Outcome(gs, <<>>, "WrongGoalState")

\* abort_goal
abort_goal(gs, g, ws) ==
  IF g \notin DOMAIN gs THEN Outcome(gs, <<>>, "NoSuchGoal")
  ELSE IF gs[g].status \in {Accepted, Executing}
    THEN LET mut_o == [gs EXCEPT ![g].status = Aborted]
         IN Outcome(mut_o, <<publish_statuses(mut_o, ws)>>, "Ok")
  ELSE Outcome(gs, <<>>, "WrongGoalState")

\* A goal_filter that cancels the goals accepted at or before the stamp.
goal_filter_at_or_before(goal_id, stamp, g_id, ag) ==
  IF goal_id = GoalIdZERO /\ stamp = TimeZERO THEN TRUE
  ELSE IF goal_id = GoalIdZERO
    THEN ag.accepted_time # NoTime /\ ag.accepted_time <= stamp
  ELSE IF stamp = TimeZERO THEN goal_id = g_id
  ELSE goal_id = g_id \/ (ag.accepted_time # NoTime /\ ag.accepted_time <= stamp)

\* receive_cancel_request: the goal_filter chosen by the match on the request's
\* GoalInfo, applied to the registry record (g_id, ag).
goal_filter(goal_id, stamp, g_id, ag) ==
  IF goal_id = GoalIdZERO /\ stamp = TimeZERO THEN TRUE
  ELSE IF goal_id = GoalIdZERO
    THEN ag.accepted_time # NoTime /\ ag.accepted_time < stamp
  ELSE IF stamp = TimeZERO THEN goal_id = g_id
  ELSE goal_id = g_id \/ (ag.accepted_time # NoTime /\ ag.accepted_time < stamp)

\* A status filter that lets every goal through.
cancel_status_filter_any(ag) == ag.status \in GoalStatusEnum

\* receive_cancel_request: only goals with status Executing or Accepted are considered.
cancel_status_filter(ag) == ag.status = Executing \/ ag.status = Accepted

\* receive_cancel_request: the goals of the CancelHandle, the registry in key order
\* filtered twice.
receive_cancel_request(gs, goal_id, stamp) ==
  LET keep(g) == cancel_status_filter(gs[g]) /\ goal_filter(goal_id, stamp, g, gs[g])
  IN SelectSeq(KeysAscending(DOMAIN gs), keep)

\* respond_to_cancel_requests: which of the caller's goal ids become a GoalInfo of
\* the response (the filter_map over goals_to_cancel).
RECURSIVE canceling_goals(_, _)
canceling_goals(gs, goals_to_cancel) ==
  IF goals_to_cancel = <<>> THEN <<>>
  ELSE LET goal_id == Head(goals_to_cancel)
           rest == canceling_goals(gs, Tail(goals_to_cancel))
       IN IF goal_id \in DOMAIN gs /\ gs[goal_id].accepted_time # NoTime
          THEN <<[goal_id |-> goal_id, stamp |-> gs[goal_id].accepted_time]>> \o rest
          ELSE rest

\* A loop that sets every goal that was accepted to Canceling, listed or not.
SetCanceling_every_accepted(gs, infos) ==
  [g \in DOMAIN gs |-> IF gs[g].accepted_time # NoTime /\ infos # <<>>
                        THEN [gs[g] EXCEPT !.status = Canceling] ELSE gs[g]]

\* respond_to_cancel_requests: the registry after the loop over canceling_goals.
SetCanceling(gs, infos) ==
  LET ids == {infos[i].goal_id : i \in DOMAIN infos}
  IN [g \in DOMAIN gs |-> IF g \in ids THEN [gs[g] EXCEPT !.status = Canceling] ELSE gs[g]]

\* respond_to_cancel_requests
respond_to_cancel_requests(gs, req_id, goals_to_cancel, ws, wr) ==
  LET infos == canceling_goals(gs, goals_to_cancel)
      after == SetCanceling(gs, infos)
  IN Outcome(after,
             <<publish_statuses(after, ws),
               CancelResponseMsg(req_id, IF infos = <<>> THEN "Rejected" ELSE "None",
                                 infos, wr)>>,
             IF wr THEN "Ok" ELSE "DDSWriteError")

\* The goals_to_cancel lists a caller may supply.
CancelLists == UNION {[1..n -> GoalIds] : n \in 0..MaxCancelList}

\* ---------------------------------------------------------------- actions
\* receive_new_goal: one turn of its loop, which awaits the next goal request.
ReceiveNewGoal ==
  /\ pc.op \in {"idle", "receive_new_goal"}
  /\ goalQ # <<>>
  /\ LET rq == Head(goalQ)
         r == receive_new_goal(goals, rq)
     IN /\ goalQ' = Tail(goalQ)
        /\ goals' = r.goals
        /\ hNew' = hNew \cup r.handle
        /\ discarded' = IF r.handle = {} THEN discarded \cup {rq.req_id} ELSE discarded
        /\ pc' = IF r.code = "Ok" THEN Idle ELSE [Idle EXCEPT !.op = "receive_new_goal"]
        /\ ret' = Ret("receive_new_goal", rq.goal_id, rq.req_id, r.code)
  /\ out' = <<>>
  /\ UNCHANGED <<result_requests, resultQ, sent, hAcc, hExec, hCancel, goalResponded,
                 resultSent, asked>>
  /\ Wire

AcceptGoal(h, now, ws, wr) ==
  /\ pc.op = "idle"
  /\ h \in hNew
  /\ LET r == accept_goal(goals, h, now, ws, wr)
     IN /\ goals' = r.goals
        /\ out' = r.out
        /\ ret' = Ret("accept_goal", h.goal_id, h.req_id, r.code)
        \* Ok(AcceptedGoalHandle { .. })
        /\ hAcc' = IF r.code = "Ok" THEN hAcc \cup {h.goal_id} ELSE hAcc
        /\ goalResponded' = goalResponded \cup Delivered(r.out, "goal_response")
  /\ UNCHANGED <<result_requests, goalQ, resultQ, sent, hNew, hExec, hCancel, pc,
                 resultSent, discarded, asked>>
  /\ Wire

RejectGoal(h, now, wr) ==
  /\ pc.op = "idle"
  /\ h \in hNew
  /\ LET r == reject_goal(goals, h, now, wr)
     IN /\ goals' = r.goals
        /\ out' = r.out
        /\ ret' = Ret("reject_goal", h.goal_id, h.req_id, r.code)
        /\ goalResponded' = goalResponded \cup Delivered(r.out, "goal_response")
  /\ UNCHANGED <<result_requests, goalQ, resultQ, sent, hNew, hAcc, hExec, hCancel, pc,
                 resultSent, discarded, asked>>
  /\ Wire

StartExecutingGoal(g, ws) ==
  /\ pc.op = "idle"
  /\ g \in hAcc
  /\ LET r == start_executing_goal(goals, g, ws)
     IN /\ goals' = r.goals
        /\ out' = r.out
        /\ ret' = Ret("start_executing_goal", g, 0, r.code)
        \* Ok(ExecutingGoalHandle { .. })
        /\ hExec' = IF r.code = "Ok" THEN hExec \cup {g} ELSE hExec
  /\ UNCHANGED <<result_requests, goalQ, resultQ, sent, hNew, hAcc, hCancel, pc,
                 goalResponded, resultSent, discarded, asked>>
  /\ Wire

PublishFeedback(g, wr) ==
  /\ pc.op = "idle"
  /\ g \in hExec
  /\ LET r == publish_feedback(goals, g, wr)
     IN /\ goals' = r.goals
        /\ out' = r.out
        /\ ret' = Ret("publish_feedback", g, 0, r.code)
  /\ UNCHANGED <<result_requests, goalQ, resultQ, sent, hNew, hAcc, hExec, hCancel, pc,
                 goalResponded, resultSent, discarded, asked>>
  /\ Wire

\* The end of send_result_response, once the request id is known.
SrrFinish(g, req_id, result_status, result, ws, wr) ==
  LET r == send_result_response(goals, g, req_id, result_status_of(result_status),
                                result, ws, wr)
  IN /\ goals' = r.goals
     /\ out' = r.out
     /\ ret' = [Ret("send_result_response", g, req_id, r.code)
                  EXCEPT !.args = <<g, result_status, result>>]
     /\ resultSent' = IF r.code = "Ok" THEN resultSent \cup {g} ELSE resultSent
     /\ pc' = Idle

\* send_result_response, up to its first await: the result request is already in
\* result_requests and the call runs to its end, or the call starts to read the
\* result request stream.
SendResultResponse(g, result_status, result, ws, wr) ==
  /\ pc.op = "idle"
  /\ g \in hExec
  /\ IF g \in DOMAIN result_requests
     THEN SrrFinish(g, result_requests[g], result_status, result, ws, wr)
     ELSE /\ pc' = [op |-> "send_result_response", goal |-> g, status |-> result_status,
                    result |-> result]
          /\ ret' = Ret("send_result_response", g, 0, "Pending")
          /\ out' = <<>>
          /\ UNCHANGED <<goals, resultSent>>
  /\ UNCHANGED <<result_requests, goalQ, resultQ, sent, hNew, hAcc, hExec, hCancel,
                 goalResponded, discarded, asked>>
  /\ Wire

\* send_result_response, one turn of its loop: res_reqs.select_next_some().await
\* yields the next result request.
SrrReceive(ws, wr) ==
  /\ pc.op = "send_result_response"
  /\ resultQ # <<>>
  /\ LET rq == Head(resultQ) IN
       /\ resultQ' = Tail(resultQ)
       /\ IF is_awaited_request(rq, pc.goal)
          THEN /\ SrrFinish(pc.goal, rq.req_id, pc.status, pc.result, ws, wr)
               /\ UNCHANGED result_requests
          ELSE /\ result_requests' = MapInsert(result_requests, rq.goal_id, rq.req_id)
               /\ ret' = Ret("send_result_response", pc.goal, 0, "Pending")
               /\ out' = <<>>
               /\ UNCHANGED <<goals, pc, resultSent>>
  /\ UNCHANGED <<goalQ, sent, hNew, hAcc, hExec, hCancel, goalResponded, discarded, asked>>
  /\ Wire

AbortGoal(op, g, ws) ==
  /\ pc.op = "idle"
  /\ LET r == abort_goal(goals, g, ws)
     IN /\ goals' = r.goals
        /\ out' = r.out
        /\ ret' = Ret(op, g, 0, r.code)
  /\ UNCHANGED <<result_requests, goalQ, resultQ, sent, hNew, hAcc, hExec, hCancel,
                 pc, goalResponded, resultSent, discarded, asked>>
  /\ Wire

\* abort_executing_goal
AbortExecutingGoal(g, ws) == g \in hExec /\ AbortGoal("abort_executing_goal", g, ws)

\* abort_accepted_goal
AbortAcceptedGoal(g, ws) == g \in hAcc /\ AbortGoal("abort_accepted_goal", g, ws)

\* receive_cancel_request; the CancelGoalRequest read from the cancel service is
\* (goal_id, stamp), as written by ActionClient::cancel_goal_raw.
ReceiveCancelRequest(goal_id, stamp) ==
  /\ pc.op = "idle"
  /\ sent.cancel < MaxCancelReqs
  /\ sent' = [sent EXCEPT !.cancel = @ + 1]
  /\ hCancel' = hCancel \cup {sent.cancel + 1}
  /\ ret' = [op |-> "receive_cancel_request", goal |-> goal_id, req |-> sent.cancel + 1,
             stamp |-> stamp, handle_goals |-> receive_cancel_request(goals, goal_id, stamp),
             code |-> "Ok", args |-> <<>>]
  /\ out' = <<>>
  /\ UNCHANGED <<goals, result_requests, goalQ, resultQ, hNew, hAcc, hExec, pc,
                 goalResponded, resultSent, discarded, asked>>
  /\ Wire

RespondToCancelRequests(h, goals_to_cancel, ws, wr) ==
  /\ pc.op = "idle"
  /\ h \in hCancel
  /\ LET r == respond_to_cancel_requests(goals, h, goals_to_cancel, ws, wr)
     IN /\ goals' = r.goals
        /\ out' = r.out
        /\ ret' = [Ret("respond_to_cancel_requests", 0, h, r.code)
                     EXCEPT !.handle_goals = goals_to_cancel]
  /\ UNCHANGED <<result_requests, goalQ, resultQ, sent, hNew, hAcc, hExec, hCancel,
                 pc, goalResponded, resultSent, discarded, asked>>
  /\ Wire

\* respond_to_cancel_requests when async_send_response(..).await does not complete
\* at once: the statuses are set and published, the call is suspended with the
\* response still to send. before is the registry as the call found it.
RespondToCancelRequestsSuspend(h, goals_to_cancel, ws) ==
  /\ pc.op = "idle"
  /\ h \in hCancel
  /\ LET r == respond_to_cancel_requests(goals, h, goals_to_cancel, ws, TRUE)
     IN /\ goals' = r.goals
        /\ out' = <<r.out[1]>>
        /\ pc' = [op |-> "respond_to_cancel_requests", goal |-> 0, status |-> Unknown,
                  result |-> "none", req |-> h, response |-> r.out[2], before |-> goals]
        /\ ret' = [Ret("respond_to_cancel_requests", 0, h, "Pending")
                     EXCEPT !.handle_goals = goals_to_cancel]
  /\ UNCHANGED <<result_requests, goalQ, resultQ, sent, hNew, hAcc, hExec, hCancel,
                 goalResponded, resultSent, discarded, asked>>
  /\ Wire

\* The suspended respond_to_cancel_requests is polled again and async_send_response
\* completes, with the write result wr.
RtcSendResponse(wr) ==
  /\ pc.op = "respond_to_cancel_requests"
  /\ out' = <<[pc.response EXCEPT !.ok = wr]>>
  /\ ret' = Ret("respond_to_cancel_requests", 0, pc.req, IF wr THEN "Ok" ELSE "DDSWriteError")
  /\ pc' = Idle
  /\ UNCHANGED <<goals, result_requests, goalQ, resultQ, sent, hNew, hAcc, hExec,
                 hCancel, goalResponded, resultSent, discarded, asked>>
  /\ Wire

\* The owner gets an ExecutingGoalHandle for the goal id g from a second
\* AsyncActionServer of the same action type, to which the client sent the same goal:
\* a handle holds the goal id and nothing of the server that made it.
OtherServerHandle(g) ==
  /\ pc.op = "idle"
  /\ g \notin hExec
  /\ hExec' = hExec \cup {g}
  /\ out' = <<>>
  /\ ret' = NoRet
  /\ UNCHANGED <<goals, result_requests, goalQ, resultQ, sent, hNew, hAcc, hCancel,
                 pc, goalResponded, resultSent, discarded, asked>>
  /\ Wire

\* The owner drops the future of a suspended call (a select! or a timeout around it).
DropCall ==
  /\ pc.op # "idle"
  /\ pc' = Idle
  /\ ret' = Ret(pc.op, pc.goal, 0, "Dropped")
  /\ out' = <<>>
  /\ UNCHANGED <<goals, result_requests, goalQ, resultQ, sent, hNew, hAcc, hExec,
                 hCancel, goalResponded, resultSent, discarded, asked>>
  /\ Wire

\* ------------------------------------------------------ ActionClient
\* What a receive call does to the queue q of its reader: value is what it returns,
\* taken the sample the value came from, dropped the samples it took and threw away,
\* rest what it left on the reader.
Polled(value, taken, dropped, rest) ==
  [value |-> value, taken |-> taken, dropped |-> dropped, rest |-> rest]

\* A receive_goal_response that returns the next response, whatever request it answers.
receive_goal_response_any(q, req_id) ==
  IF q = <<>> THEN Polled(<<>>, <<>>, <<>>, <<>>)
  ELSE Polled(<<[accepted |-> Head(q).accepted, stamp |-> Head(q).stamp]>>,
              <<Head(q)>>, <<>>, Tail(q))

RECURSIVE receive_goal_response(_, _)
receive_goal_response(q, req_id) ==
  IF q = <<>> THEN Polled(<<>>, <<>>, <<>>, <<>>)
  ELSE IF Head(q).req = req_id
    THEN Polled(<<[accepted |-> Head(q).accepted, stamp |-> Head(q).stamp]>>,
                <<Head(q)>>, <<>>, Tail(q))
    ELSE LET r == receive_goal_response(Tail(q), req_id)
         IN [r EXCEPT !.dropped = <<Head(q)>> \o @]

RECURSIVE receive_cancel_response(_, _)
receive_cancel_response(q, cancel_request_id) ==
  IF q = <<>> THEN Polled(<<>>, <<>>, <<>>, <<>>)
  ELSE IF Head(q).req = cancel_request_id
    THEN Polled(<<[return_code |-> Head(q).return_code,
                   goals_canceling |-> Head(q).goals_canceling]>>,
                <<Head(q)>>, <<>>, Tail(q))
    ELSE LET r == receive_cancel_response(Tail(q), cancel_request_id)
         IN [r EXCEPT !.dropped = <<Head(q)>> \o @]

\* A receive_result that reads the status one variant off.
RECURSIVE receive_result_shifted(_, _)
receive_result_shifted(q, result_request_id) ==
  IF q = <<>> THEN Polled(<<>>, <<>>, <<>>, <<>>)
  ELSE IF Head(q).req = result_request_id
    THEN Polled(<<[status |-> GoalStatusFromRepr((Head(q).status + 1) % 7),
                   result |-> Head(q).result]>>,
                <<Head(q)>>, <<>>, Tail(q))
    ELSE LET r == receive_result_shifted(Tail(q), result_request_id)
         IN [r EXCEPT !.dropped = <<Head(q)>> \o @]

RECURSIVE receive_result(_, _)
receive_result(q, result_request_id) ==
  IF q = <<>> THEN Polled(<<>>, <<>>, <<>>, <<>>)
  ELSE IF Head(q).req = result_request_id
    THEN Polled(<<[status |-> GoalStatusFromRepr(Head(q).status),
                   result |-> Head(q).result]>>,
                <<Head(q)>>, <<>>, Tail(q))
    ELSE LET r == receive_result(Tail(q), result_request_id)
         IN [r EXCEPT !.dropped = <<Head(q)>> \o @]

RECURSIVE receive_feedback(_, _)
receive_feedback(q, goal_id) ==
  IF q = <<>> THEN Polled(<<>>, <<>>, <<>>, <<>>)
  ELSE IF Head(q).goal_id = goal_id
    THEN Polled(<<Head(q).feedback>>, <<Head(q)>>, <<>>, Tail(q))
    ELSE LET r == receive_feedback(Tail(q), goal_id)
         IN [r EXCEPT !.dropped = <<Head(q)>> \o @]

\* A status_stream that yields the first entry of every array, whatever its goal.
RECURSIVE status_stream_first_entry(_, _)
status_stream_first_entry(q, goal_id) ==
  IF q = <<>> THEN Polled(<<>>, <<>>, <<>>, <<>>)
  ELSE LET list == Head(q).status_list
       IN IF list # <<>>
          THEN Polled(<<[goal_id |-> list[1].goal_id, stamp |-> list[1].stamp,
                         status |-> GoalStatusFromRepr(list[1].status)]>>,
                      <<Head(q)>>, <<>>, Tail(q))
          ELSE LET r == status_stream_first_entry(Tail(q), goal_id)
               IN [r EXCEPT !.dropped = <<Head(q)>> \o @]

\* status_stream(goal_id), one poll of it: the arrays are taken in order, and the
\* first that lists goal_id gives the item, its first entry for goal_id.
RECURSIVE status_stream(_, _)
status_stream(q, goal_id) ==
  IF q = <<>> THEN Polled(<<>>, <<>>, <<>>, <<>>)
  ELSE LET list == Head(q).status_list
           found == {i \in DOMAIN list : list[i].goal_id = goal_id}
       IN IF found # {}
          THEN LET gs == list[CHOOSE i \in found : \A j \in found : i <= j]
               IN Polled(<<[goal_id |-> gs.goal_id, stamp |-> gs.stamp,
                            status |-> GoalStatusFromRepr(gs.status)]>>,
                         <<Head(q)>>, <<>>, Tail(q))
          ELSE LET r == status_stream(Tail(q), goal_id)
               IN [r EXCEPT !.dropped = <<Head(q)>> \o @]

\* A call of the client on the reader kind: what it returns is in cret, what it left
\* is on the reader. The server is not touched.
ClientCall(op, kind, id, r) ==
  /\ inbox' = [inbox EXCEPT ![kind] = r.rest]
  /\ cret' = [op |-> op, id |-> id, value |-> r.value, taken |-> r.taken,
              dropped |-> r.dropped]
  /\ out' = <<>>
  /\ ret' = NoRet
  /\ UNCHANGED <<goals, result_requests, goalQ, resultQ, sent, hNew, hAcc, hExec,
                 hCancel, pc, goalResponded, resultSent, discarded, asked>>

ReceiveGoalResponse(req_id) ==
  /\ "goal_response" \in DOMAIN inbox
  /\ ClientCall("receive_goal_response", "goal_response", req_id,
                receive_goal_response(inbox["goal_response"], req_id))
  /\ UNCHANGED stream

ReceiveCancelResponse(cancel_request_id) ==
  /\ "cancel_response" \in DOMAIN inbox
  /\ ClientCall("receive_cancel_response", "cancel_response", cancel_request_id,
                receive_cancel_response(inbox["cancel_response"], cancel_request_id))
  /\ UNCHANGED stream

ReceiveResult(result_request_id) ==
  /\ "result" \in DOMAIN inbox
  /\ ClientCall("receive_result", "result", result_request_id,
                receive_result(inbox["result"], result_request_id))
  /\ UNCHANGED stream

ReceiveFeedback(goal_id) ==
  /\ "feedback" \in DOMAIN inbox
  /\ ClientCall("receive_feedback", "feedback", goal_id,
                receive_feedback(inbox["feedback"], goal_id))
  /\ UNCHANGED stream

\* The stream s after it yielded the items in value.
Yield(s, value) ==
  IF value = <<>> \/ (s.yielded # <<>> /\ s.yielded[Len(s.yielded)] = value[1].status)
  THEN s
  ELSE [s EXCEPT !.yielded = Append(@, value[1].status)]

\* One poll of the status_stream the client holds, when samples have arrived.
StatusStreamNext ==
  /\ stream # NoStream
  /\ "status" \in DOMAIN inbox
  /\ inbox["status"] # <<>>
  /\ LET r == status_stream(inbox["status"], stream.goal_id)
     IN /\ ClientCall("status_stream", "status", stream.goal_id, r)
        /\ stream' = Yield(stream, r.value)


\* cancel_goal_raw: the CancelGoalRequest written on the cancel service.
cancel_goal_raw(goal_id, timestamp) == [goal_id |-> goal_id, stamp |-> timestamp]

\* A cancel_goal that stamps its request with the latest time.
cancel_goal_stamped(goal_id) == cancel_goal_raw(goal_id, MaxTime)

cancel_goal(goal_id) == cancel_goal_raw(goal_id, TimeZERO)

cancel_all_goals_before(timestamp) == cancel_goal_raw(GoalIdZERO, timestamp)

cancel_all_goals == cancel_goal_raw(GoalIdZERO, TimeZERO)

\* A cancel call of the client: cret keeps the call, its argument (id) and the request
\* it wrote (value), which is on its way to the server.
CancelCall(op, arg, request) ==
  /\ sent.cancel < MaxCancelReqs
  /\ cret.op \notin {"cancel_goal", "cancel_all_goals_before", "cancel_all_goals"}
  /\ cret' = [op |-> op, id |-> arg, value |-> <<request>>, taken |-> <<>>,
              dropped |-> <<>>]
  /\ out' = <<>>
  /\ ret' = NoRet
  /\ UNCHANGED <<goals, result_requests, goalQ, resultQ, sent, hNew, hAcc, hExec,
                 hCancel, pc, goalResponded, resultSent, discarded, asked, inbox, stream>>

CancelGoal(goal_id) == CancelCall("cancel_goal", goal_id, cancel_goal(goal_id))

CancelAllGoalsBefore(timestamp) ==
  CancelCall("cancel_all_goals_before", timestamp, cancel_all_goals_before(timestamp))

CancelAllGoals == CancelCall("cancel_all_goals", 0, cancel_all_goals)

\* receive_cancel_request when the request it reads is the one the client wrote: the
\* server reads it as its next call, with the registry in whatever state it is.
ReceiveSentCancelRequest ==
  /\ cret.op \in {"cancel_goal", "cancel_all_goals_before", "cancel_all_goals"}
  /\ ReceiveCancelRequest(cret.value[1].goal_id, cret.value[1].stamp)

\* ---------------------------------------------------------- specifications
\* In the calls below W is the set of results a DDS write may have and T the set of
\* readings Time::now() may return; max is how many goal requests are written.

\* The goal service and the calls that move a goal through its states.
GoalCalls(W, T, max) ==
  \/ \E g \in GoalIds : SendGoal(g, max)
  \/ ReceiveNewGoal
  \/ \E h \in hNew, now \in T, ws \in W, wr \in W : AcceptGoal(h, now, ws, wr)
  \/ \E h \in hNew, now \in T, wr \in W : RejectGoal(h, now, wr)
  \/ \E g \in hAcc, ws \in W : StartExecutingGoal(g, ws)
  \/ \E g \in hExec, wr \in W : PublishFeedback(g, wr)
  \/ \E g \in hExec, ws \in W : AbortExecutingGoal(g, ws)
  \/ \E g \in hAcc, ws \in W : AbortAcceptedGoal(g, ws)

\* The result service.
ResultCalls(W) ==
  \/ \E g \in GoalIds : RequestResult(g)
  \/ \E g \in hExec, st \in GoalEndStatus, r \in Results, ws \in W, wr \in W :
        SendResultResponse(g, st, r, ws, wr)
  \/ \E ws \in W, wr \in W : SrrReceive(ws, wr)

\* The cancel service.
CancelCalls(W) ==
  \/ \E g \in GoalIds \cup {GoalIdZERO}, t \in 0..MaxTime : ReceiveCancelRequest(g, t)
  \/ \E h \in hCancel, l \in CancelLists, ws \in W, wr \in W :
        RespondToCancelRequests(h, l, ws, wr)

\* Every call; DDS accepts every write; every goal is accepted at the same clock
\* reading.
Next == GoalCalls({TRUE}, {MaxTime}, MaxGoalReqs) \/ ResultCalls({TRUE}) \/ CancelCalls({TRUE}) \/ DropCall

Spec == Init /\ [][Next]_vars

\* The goal and cancel services with a clock that moves; no result is sent, goals end
\* by abort_*.
ClockNext == GoalCalls({TRUE}, Times, MaxGoalReqs) \/ CancelCalls({TRUE}) \/ DropCall

ClockSpec == Init /\ [][ClockNext]_vars

\* The goal service alone, with one goal request more than there are goal ids, so
\* that a goal id arrives again after every id was received.
GoalNext == GoalCalls({TRUE}, {MaxTime}, MaxGoalReqs + 1) \/ DropCall

GoalSpec == Init /\ [][GoalNext]_vars

\* Every call, with respond_to_cancel_requests also suspending at its await.
DropNext ==
  \/ Next
  \/ \E h \in hCancel, l \in CancelLists : RespondToCancelRequestsSuspend(h, l, TRUE)
  \/ RtcSendResponse(TRUE)

DropSpec == Init /\ [][DropNext]_vars

\* The goal and result services when DDS may refuse any write.
WriteNext == GoalCalls(BOOLEAN, {MaxTime}, MaxGoalReqs) \/ ResultCalls(BOOLEAN) \/ DropCall

WriteSpec == Init /\ [][WriteNext]_vars

\* Every call with a clock that moves.
TimeNext == GoalCalls({TRUE}, Times, MaxGoalReqs) \/ ResultCalls({TRUE}) \/ CancelCalls({TRUE}) \/ DropCall

TimeSpec == Init /\ [][TimeNext]_vars

\* The goal and result services, each suspended call polled until it returns: the
\* loop of send_result_response takes every result request that is on the stream.
LiveNext == GoalCalls({TRUE}, {MaxTime}, MaxGoalReqs) \/ ResultCalls({TRUE})

LiveSpec == Init /\ [][LiveNext]_vars /\ WF_vars(SrrReceive(TRUE, TRUE))

\* The goal and result services of a server whose owner also runs a second server of
\* the same action type; the statuses given to one goal are recorded.
SharedHandleInit ==
  /\ ServerInit
  /\ inbox = <<>>
  /\ cret = NoCRet
  /\ \E g \in GoalIds : stream = [goal_id |-> g, yielded |-> <<>>, committed |-> <<>>]

SharedHandleNext ==
  \/ GoalCalls({TRUE}, {MaxTime}, MaxGoalReqs)
  \/ ResultCalls({TRUE})
  \/ \E g \in GoalIds : OtherServerHandle(g)

SharedHandleSpec == SharedHandleInit /\ [][SharedHandleNext]_vars

\* The goal service with a clock that moves, and a client that cancels with its three
\* cancel calls.
CancelClientNext ==
  \/ GoalCalls({TRUE}, Times, MaxGoalReqs)
  \/ \E g \in GoalIds \cup {GoalIdZERO} : CancelGoal(g)
  \/ \E t \in 0..MaxTime : CancelAllGoalsBefore(t)
  \/ CancelAllGoals
  \/ ReceiveSentCancelRequest

CancelClientSpec == Init /\ [][CancelClientNext]_vars

\* An ActionClient with the readers in kinds matched to the server.
ClientInit(kinds) ==
  /\ ServerInit
  /\ inbox = [k \in kinds |-> <<>>]
  /\ cret = NoCRet
  /\ stream = NoStream

\* The goal and result services with the client polling for its results.
RoundTripInit == ClientInit({"result"})

RoundTripNext ==
  \/ GoalCalls({TRUE}, {MaxTime}, MaxGoalReqs)
  \/ ResultCalls({TRUE})
  \/ \E rq \in 1..MaxResultReqs : ReceiveResult(rq)

RoundTripSpec == RoundTripInit /\ [][RoundTripNext]_vars

\* The goal and result services with the client holding the status_stream of one goal.
StatusInit ==
  /\ ServerInit
  /\ inbox = [k \in {"status"} |-> <<>>]
  /\ cret = NoCRet
  /\ \E g \in GoalIds : stream = [goal_id |-> g, yielded |-> <<>>, committed |-> <<>>]

StatusNext ==
  \/ GoalCalls({TRUE}, {MaxTime}, MaxGoalReqs)
  \/ ResultCalls({TRUE})
  \/ StatusStreamNext

StatusSpec == StatusInit /\ [][StatusNext]_vars

\* The sequences over S of at most n elements.
BoundedSeq(S, n) == UNION {[1..k -> S] : k \in 0..n}

\* The samples that may be on a reader of the client: the responses answer any
\* request on the service, the client's own or another's.
Samples(kind) ==
  CASE kind = "goal_response" ->
         [req : 1..MaxPollId, accepted : BOOLEAN, stamp : {MaxTime}]
    [] kind = "cancel_response" ->
         [req : 1..MaxPollId, return_code : {"None", "Rejected"}, goals_canceling : {<<>>}]
    [] kind = "result" ->
         [req : 1..MaxPollId, status : {GoalStatusRepr(Succeeded), GoalStatusRepr(Aborted)},
          result : {"R1"}, sent_as : {<<>>}]
    [] kind = "feedback" -> [goal_id : GoalIds, feedback : {"F", "G"}]

\* The client alone, polling one of its readers on which samples have arrived.
PollInit ==
  /\ ServerInit
  /\ cret = NoCRet
  /\ stream = NoStream
  /\ \E kind \in {"goal_response", "cancel_response", "result", "feedback"} :
       \E q \in BoundedSeq(Samples(kind), MaxInbox) : inbox = [k \in {kind} |-> q]

PollNext ==
  \/ \E id \in 1..MaxPollId : ReceiveGoalResponse(id)
  \/ \E id \in 1..MaxPollId : ReceiveCancelResponse(id)
  \/ \E id \in 1..MaxPollId : ReceiveResult(id)
  \/ \E g \in GoalIds : ReceiveFeedback(g)

PollSpec == PollInit /\ [][PollNext]_vars

\* ------------------------------------------------------------------ claims
Terminal == {Succeeded, Canceled, Aborted}

\* The status transitions enumerated in the data model.
EnumeratedTransitions ==
  {<<Unknown, Accepted>>, <<Accepted, Executing>>, <<Accepted, Aborted>>,
   <<Executing, Succeeded>>, <<Executing, Canceling>>, <<Executing, Aborted>>,
   <<Canceling, Canceled>>, <<Canceling, Aborted>>, <<Canceling, Succeeded>>}

\* C1: every change of a goal's registry status, under any sequence of calls, is one
\* of the enumerated transitions.
C1_OnlyEnumeratedTransitions ==
  [][\A g \in DOMAIN goals :
       goals'[g].status # goals[g].status
         => <<goals[g].status, goals'[g].status>> \in EnumeratedTransitions]_vars

\* C2: terminal states are sinks: once a goal is Succeeded, Canceled or Aborted no
\* later call changes its status.
C2_TerminalStatesAreSinks ==
  [][\A g \in DOMAIN goals :
       goals[g].status \in Terminal => goals'[g].status = goals[g].status]_vars

\* C3: exactly one result response per accepted goal. Never two: a result response is
\* not written for a goal that already has one. At least one: send_result_response
\* called for an accepted goal that has no result response yet, and given its result
\* request, writes one (it does not end in WrongGoalState), also after an abort.
C3_ExactlyOneResultResponse ==
  [][\A g \in GoalIds :
       (ret'.op = "send_result_response" /\ ret'.goal = g)
         => /\ ret'.code = "Ok" => g \notin resultSent
            /\ (g \in hAcc /\ g \notin resultSent) => ret'.code # "WrongGoalState"]_vars

\* C4: the NewGoalHandles returned have pairwise distinct goal ids, one per registry
\* record; a goal request whose goal id was already in the registry yields no handle
\* and is never answered with a goal response.
C4_UniqueGoalIds ==
  /\ \A h1 \in hNew, h2 \in hNew : h1.goal_id = h2.goal_id => h1 = h2
  /\ {h.goal_id : h \in hNew} = DOMAIN goals
  /\ \A r \in discarded : r \notin goalResponded /\ \A h \in hNew : h.req_id # r

\* C4 witness: every goal id was received and a request repeating one of them was
\* discarded, while the first request for that id has been answered.
C4_Witness ==
  /\ DOMAIN goals = GoalIds
  /\ \E r \in discarded : \E h \in hNew : h.req_id < r /\ h.req_id \in goalResponded

\* Whether the status array arr has exactly one entry per record of the registry gs,
\* each with the record's status, in ascending goal id order.
IsCompleteArray(arr, gs) ==
  /\ Len(arr) = Cardinality(DOMAIN gs)
  /\ \A i \in DOMAIN arr :
       arr[i].goal_id \in DOMAIN gs /\ arr[i].status = gs[arr[i].goal_id].status
  /\ \A i \in DOMAIN arr, j \in DOMAIN arr : i < j => arr[i].goal_id < arr[j].goal_id

\* C5: a call that changes the status of a goal publishes a status array, and every
\* status array published has exactly one entry per goal of the registry, with the
\* goal's current status, in ascending goal id order.
C5_StatusCompleteness ==
  [][/\ (\E g \in DOMAIN goals : goals'[g].status # goals[g].status)
          => \E i \in DOMAIN out' : out'[i].kind = "status"
     /\ \A i \in DOMAIN out' :
          out'[i].kind = "status" => IsCompleteArray(out'[i].body, goals')]_vars

\* C5 witness: a goal has just started executing and the published array also lists
\* a goal that is still Unknown.
C5_Witness ==
  /\ ret.op = "start_executing_goal" /\ ret.code = "Ok"
  /\ Len(out) = 1 /\ out[1].kind = "status" /\ Len(out[1].body) = 2
  /\ \E i \in DOMAIN out[1].body : out[1].body[i].status = Unknown

\* The predicate P of the cancel predicate table, for the request (goal_id, stamp) and
\* the goal g of the registry gs.
CancelPredicate(gs, goal_id, stamp, g) ==
  CASE goal_id = GoalIdZERO /\ stamp = TimeZERO -> TRUE
    [] goal_id = GoalIdZERO /\ stamp # TimeZERO ->
         gs[g].accepted_time \in Times /\ gs[g].accepted_time < stamp
    [] goal_id # GoalIdZERO /\ stamp = TimeZERO -> g = goal_id
    [] goal_id # GoalIdZERO /\ stamp # TimeZERO ->
         g = goal_id \/ (gs[g].accepted_time \in Times /\ gs[g].accepted_time < stamp)

ResultAnswered(g) ==
  /\ ret.op = "send_result_response" /\ ret.goal = g /\ ret.code = "Ok"
  /\ \E i \in DOMAIN out :
       out[i].kind = "result" /\ out[i].ok /\ out[i].req = ret.req /\ asked[out[i].req] = g

\* C7, the request first: send_result_response for a goal whose result request is in
\* result_requests answers on that request id at once.
C7_RequestFirst ==
  \A g \in GoalIds :
    (pc.op = "idle" /\ g \in DOMAIN result_requests
       /\ ret'.op = "send_result_response" /\ ret'.goal = g)
      => ResultAnswered(g)' /\ ret'.req = result_requests[g]

\* C7, the call first: a suspended send_result_response returns only on reading a
\* request for its goal, which it answers; a request for another goal that it reads
\* goes to result_requests.
C7_CallFirst ==
  (pc.op = "send_result_response" /\ Len(resultQ') < Len(resultQ)) =>
    LET rq == Head(resultQ) IN
      IF rq.goal_id = pc.goal
      THEN /\ pc'.op = "idle" /\ ret'.req = rq.req_id
           /\ \A g \in GoalIds : g = pc.goal => ResultAnswered(g)'
      ELSE /\ pc' = pc
           /\ rq.goal_id \in DOMAIN result_requests'
           /\ result_requests'[rq.goal_id] = rq.req_id

\* C7: in either order of the result request for a goal and the send_result_response
\* for it, the request is answered with the result: a request that was read earlier
\* is answered at once, a call that came first waits for the request and answers it,
\* and a suspended call whose request is on the stream leads to the answer.
C7_ResultRequestBuffering ==
  /\ [][C7_RequestFirst /\ C7_CallFirst]_vars
  /\ \A g \in GoalIds :
       (pc.op = "send_result_response" /\ pc.goal = g
          /\ \E i \in DOMAIN resultQ : resultQ[i].goal_id = g)
         ~> ResultAnswered(g)

\* C8: in accept_goal the status array showing the goal as Accepted is published
\* before the goal response with accepted = true is sent.
C8_StatusBeforeAcceptReply ==
  \A i \in DOMAIN out :
    (out[i].kind = "goal_response" /\ out[i].body.accepted) =>
      \E j \in 1..(i - 1) :
        /\ out[j].kind = "status"
        /\ \E k \in DOMAIN out[j].body :
             out[j].body[k].goal_id = ret.goal /\ out[j].body[k].status = Accepted

\* C8 witness: accept_goal has sent its response.
C8_Witness ==
  /\ ret.op = "accept_goal" /\ ret.code = "Ok"
  /\ \E i \in DOMAIN out : out[i].kind = "goal_response" /\ out[i].body.accepted

\* C9: in send_result_response the result response is sent only after the registry
\* status was set to the terminal status and a status array showing it was published.
C9_TerminalStatusBeforeResult ==
  \A i \in DOMAIN out :
    out[i].kind = "result" =>
      /\ out[i].body.status \in Terminal
      /\ goals[ret.goal].status = out[i].body.status
      /\ \E j \in 1..(i - 1) :
           /\ out[j].kind = "status"
           /\ \E k \in DOMAIN out[j].body :
                /\ out[j].body[k].goal_id = ret.goal
                /\ out[j].body[k].status = out[i].body.status

\* C9 witness: send_result_response has sent a result for a goal that was canceling.
C9_Witness ==
  /\ ret.op = "send_result_response" /\ ret.code = "Ok"
  /\ \E i \in DOMAIN out : out[i].kind = "result" /\ out[i].body.status = Canceled

\* C10: a call that returns NoSuchGoal or WrongGoalState leaves the registry as it was
\* and has sent nothing.
C10_StateErrorsDoNotMutate ==
  [][ret'.code \in {"NoSuchGoal", "WrongGoalState"} => goals' = goals /\ out' = <<>>]_vars

\* C10 witness: abort_executing_goal has returned WrongGoalState for a goal that had
\* just been moved to Canceling.
C10_Witness ==
  /\ ret.op = "abort_executing_goal" /\ ret.code = "WrongGoalState"
  /\ goals[ret.goal].status = Canceling

\* Whether goal g was rejected: its goal request got a goal response and the goal is
\* still Unknown (accept_goal is the only other writer of goal responses).
Rejected(g) ==
  /\ g \in DOMAIN goals /\ goals[g].status = Unknown
  /\ \E h \in hNew : h.goal_id = g /\ h.req_id \in goalResponded

\* C11: reject_goal answers the goal request with accepted = false and publishes
\* nothing, and no status array published later has an entry for a rejected goal.
C11_RejectedGoalNotBroadcast ==
  /\ (ret.op = "reject_goal" /\ ret.code = "Ok") =>
        /\ Len(out) = 1 /\ out[1].kind = "goal_response"
        /\ out[1].req = ret.req /\ ~out[1].body.accepted
  /\ \A i \in DOMAIN out :
       out[i].kind = "status" =>
         \A k \in DOMAIN out[i].body : ~Rejected(out[i].body[k].goal_id)

C13_OnlyCancellableGoalsCanceled ==
  [][ret'.op = "respond_to_cancel_requests" =>
       /\ \A i \in DOMAIN out' :
            out'[i].kind = "cancel_response" =>
              \A k \in DOMAIN out'[i].body.goals_canceling :
                goals[out'[i].body.goals_canceling[k].goal_id].status
                  \in {Accepted, Executing}
       /\ \A g \in DOMAIN goals :
            goals'[g].status # goals[g].status
              => goals[g].status \in {Accepted, Executing} /\ goals'[g].status = Canceling]_vars

\* C16: a call dropped at a suspension point leaves the registry as it was when the
\* call began: a call changes no status while it stays suspended or before it
\* suspends, and the registry after DropCall is the one the call found.
C16_DropLeavesRegistryUntouched ==
  [][/\ (pc'.op # "idle" /\ pc'.op # "respond_to_cancel_requests") => goals' = goals
     /\ ret'.code = "Dropped" =>
          goals' = IF pc.op = "respond_to_cancel_requests" THEN pc.before ELSE goals]_vars

\* C17: a DDS write failure does not take a transition back. accept_goal and
\* send_result_response whose response write fails return DDSWriteError with the goal
\* in its new status (and accepted_time); a failed status publish is not returned.
C17_WriteFailureNotRolledBack ==
  [][/\ (ret'.op = "accept_goal" /\ ret'.code = "DDSWriteError") =>
          /\ goals[ret'.goal].status = Unknown
          /\ goals'[ret'.goal].status = Accepted
          /\ goals'[ret'.goal].accepted_time \in Times
     /\ (ret'.op = "send_result_response" /\ ret'.code = "DDSWriteError") =>
          /\ goals[ret'.goal].status \in {Accepted, Executing, Canceling}
          /\ goals'[ret'.goal].status \in Terminal
     /\ (ret'.op \in {"accept_goal", "send_result_response"}
           /\ \E i \in DOMAIN out' : out'[i].kind # "status" /\ ~out'[i].ok)
          => ret'.code = "DDSWriteError"
     /\ (/\ \E i \in DOMAIN out' : out'[i].kind = "status" /\ ~out'[i].ok
         /\ \A i \in DOMAIN out' : out'[i].kind # "status" => out'[i].ok)
          => /\ ret'.code = "Ok"
             /\ \E g \in DOMAIN goals : goals'[g].status # goals[g].status]_vars

\* C17 witness: send_result_response returned DDSWriteError after a status publish
\* that failed too, and the goal is in its terminal status.
C17_Witness ==
  /\ ret.op = "send_result_response" /\ ret.code = "DDSWriteError"
  /\ goals[ret.goal].status \in Terminal
  /\ \E i \in DOMAIN out : out[i].kind = "status" /\ ~out[i].ok

\* C18: a handle is returned only with the registry transition done: the goal is
\* Unknown when receive_new_goal returns its NewGoalHandle, Accepted when accept_goal
\* returns, Executing when start_executing_goal returns; no handle comes otherwise.
C18_HandleAfterTransition ==
  [][/\ \A h \in hNew' \ hNew :
          /\ ret'.op = "receive_new_goal" /\ ret'.goal = h.goal_id
          /\ h.goal_id \notin DOMAIN goals
          /\ goals'[h.goal_id] = AsyncGoal(Unknown, NoTime)
     /\ \A g \in hAcc' \ hAcc :
          /\ ret'.op = "accept_goal" /\ ret'.goal = g
          /\ goals[g].status = Unknown /\ goals'[g].status = Accepted
     /\ \A g \in hExec' \ hExec :
          /\ ret'.op = "start_executing_goal" /\ ret'.goal = g
          /\ goals[g].status = Accepted /\ goals'[g].status = Executing
     /\ (ret'.op = "accept_goal" /\ ret'.code = "Ok") => goals'[ret'.goal].status = Accepted
     /\ (ret'.op = "start_executing_goal" /\ ret'.code = "Ok")
          => goals'[ret'.goal].status = Executing]_vars

\* C18 witness: an ExecutingGoalHandle was just returned while another goal has only
\* its NewGoalHandle.
C18_Witness ==
  /\ ret.op = "start_executing_goal" /\ ret.code = "Ok" /\ ret.goal \in hExec
  /\ \E h \in hNew : h.goal_id \notin hAcc /\ goals[h.goal_id].status = Unknown

\* C19: accepted_time is set once, by the accept_goal that moves the goal from Unknown
\* to Accepted, and no call changes it afterwards.
C19_AcceptedTimeSetOnce ==
  [][/\ \A g \in DOMAIN goals :
          goals'[g].accepted_time # goals[g].accepted_time =>
            /\ ret'.op = "accept_goal" /\ ret'.goal = g
            /\ goals[g].status = Unknown /\ goals[g].accepted_time = NoTime
            /\ goals'[g].status = Accepted /\ goals'[g].accepted_time \in Times
     /\ \A g \in DOMAIN goals' \ DOMAIN goals : goals'[g].accepted_time = NoTime
     /\ \A g \in DOMAIN goals' :
          (goals'[g].accepted_time = NoTime) <=> (goals'[g].status = Unknown)]_vars

\* C19 witness: a goal accepted at the first clock reading has ended, after a later
\* reading was taken for another goal, and still has its accepted_time.
C19_Witness ==
  \E g \in DOMAIN goals, g2 \in DOMAIN goals :
    /\ goals[g].status \in Terminal /\ goals[g].accepted_time = 1
    /\ goals[g2].accepted_time = MaxTime /\ MaxTime > 1
\* C14: the answer receive_result returns for a result request was written by a
\* send_result_response for the goal that request asked for, and carries the status
\* that call was given, as the GoalStatusEnum of the same name, and the result it was
\* given.
C14_RoundTrip ==
  (cret.op = "receive_result" /\ cret.value # <<>>) =>
    LET a == cret.taken[1].sent_as
        v == cret.value[1]
    IN /\ a[1] = asked[cret.id]
       /\ a[1] \in hExec
       /\ v.result = a[3]
       /\ (a[2] = EndSucceeded => v.status = Succeeded)
       /\ (a[2] = EndAborted => v.status = Aborted)
       /\ (a[2] = EndCanceled => v.status = Canceled)

\* A client asked for another result first, so the answer it obtains now was behind
\* one it dropped, and the answer is Canceled with the result R2.
C14_Witness ==
  /\ cret.op = "receive_result"
  /\ cret.value = <<[status |-> Canceled, result |-> "R2"]>>
  /\ cret.taken[1].sent_as[2] = EndCanceled
  /\ cret.dropped # <<>>

IsPrefix(a, b) == Len(a) <= Len(b) /\ SubSeq(b, 1, Len(a)) = a

\* C15: what status_stream(goal_id) has yielded is, in order, the statuses the server
\* gave that goal, from its first (Unknown, when an array was published while the goal
\* was not yet accepted) or from its second; once every array is taken nothing is
\* missing; and a goal that alone went through accept, start executing and a result
\* Succeeded is yielded as Accepted, Executing, Succeeded.
C15_StatusStreamOrder ==
  stream # NoStream =>
    /\ \/ IsPrefix(stream.yielded, stream.committed)
       \/ (stream.committed # <<>> /\ IsPrefix(stream.yielded, Tail(stream.committed)))
    /\ (inbox["status"] = <<>> /\ stream.committed # <<>>) =>
          stream.yielded \in {stream.committed, Tail(stream.committed)}
    /\ (/\ inbox["status"] = <<>>
        /\ DOMAIN goals = {stream.goal_id}
        /\ stream.committed = <<Unknown, Accepted, Executing, Succeeded>>) =>
          stream.yielded = <<Accepted, Executing, Succeeded>>

\* The stream has just yielded Succeeded, after Accepted and Executing, for a goal
\* whose result was sent while another goal was in the registry.
C15_Witness ==
  /\ cret.op = "status_stream"
  /\ cret.value # <<>>
  /\ cret.value[1].status = Succeeded
  /\ stream.yielded = <<Accepted, Executing, Succeeded>>
  /\ stream.goal_id \in resultSent
  /\ DOMAIN goals # {stream.goal_id}

\* The reader a polling receive reads.
PollKind(op) ==
  CASE op = "receive_goal_response" -> "goal_response"
    [] op = "receive_cancel_response" -> "cancel_response"
    [] op = "receive_result" -> "result"
    [] op = "receive_feedback" -> "feedback"

\* What a polling receive hands out of the sample s.
PollValue(op, s) ==
  CASE op = "receive_goal_response" -> [accepted |-> s.accepted, stamp |-> s.stamp]
    [] op = "receive_cancel_response" ->
         [return_code |-> s.return_code, goals_canceling |-> s.goals_canceling]
    [] op = "receive_result" ->
         [status |-> IF s.status = GoalStatusRepr(Succeeded) THEN Succeeded ELSE Aborted,
          result |-> s.result]
    [] op = "receive_feedback" -> s.feedback

\* C20: a polling receive asked for id returns the earliest sample on its reader that
\* carries id (the request id of a response, the goal id of a feedback), throws away
\* every sample before it and leaves the samples after it; when no sample carries id
\* it returns None and leaves the reader empty. A sample thrown away is not on the
\* reader for a later call.
C20_PollingReceive ==
  [][cret'.op \in {"receive_goal_response", "receive_cancel_response", "receive_result",
                   "receive_feedback"} =>
       LET kind == PollKind(cret'.op)
           q == inbox[kind]
           id == cret'.id
           hits == {i \in DOMAIN q : IF kind = "feedback" THEN q[i].goal_id = id
                                                          ELSE q[i].req = id}
       IN IF hits = {}
          THEN /\ cret'.value = <<>>
               /\ cret'.dropped = q
               /\ inbox'[kind] = <<>>
          ELSE LET k == CHOOSE i \in hits : \A j \in hits : i <= j
               IN /\ cret'.value = <<PollValue(cret'.op, q[k])>>
                  /\ cret'.taken = <<q[k]>>
                  /\ cret'.dropped = SubSeq(q, 1, k - 1)
                  /\ inbox'[kind] = SubSeq(q, k + 1, Len(q))]_vars

\* receive_goal_response returned a response after it threw another away, and one
\* more response to the same request is still on the reader.
C20_Witness ==
  /\ cret.op = "receive_goal_response"
  /\ cret.value # <<>>
  /\ cret.dropped # <<>>
  /\ \E i \in DOMAIN inbox["goal_response"] : inbox["goal_response"][i].req = cret.id

\* C21: a send_result_response that runs to its end for a goal that abort_executing_goal
\* or abort_accepted_goal set to Aborted, and that has no result response yet, writes
\* the GetResultResponse.
C21_ResultAfterAbort ==
  [][\A g \in DOMAIN goals :
       (/\ ret'.op = "send_result_response" /\ ret'.goal = g
        /\ ret'.code \notin {"Pending", "Dropped"}
        /\ goals[g].status = Aborted /\ g \notin resultSent)
         => \E i \in DOMAIN out' : out'[i].kind = "result" /\ out'[i].req = ret'.req]_vars

\* The server has read, in this call or an earlier one, a result request for goal g:
\* the requests are read in the order written, and resultQ holds the ones not read.
ReceivedResultRequest(g) ==
  \E i \in 1..(Len(asked) - Len(resultQ)) : asked[i] = g

C23_CancelResponseAndFrame ==
  [][ret'.op = "respond_to_cancel_requests" =>
       LET resp == SelectSeq(out', LAMBDA m : m.kind = "cancel_response")
           listed == {ret'.handle_goals[k] : k \in DOMAIN ret'.handle_goals}
           canceled == {g \in listed \cap DOMAIN goals : goals[g].accepted_time # NoTime}
       IN /\ Len(resp) = 1
          /\ resp[1].req = ret'.req
          /\ {resp[1].body.goals_canceling[k].goal_id :
                k \in DOMAIN resp[1].body.goals_canceling} = canceled
          /\ \A k \in DOMAIN resp[1].body.goals_canceling :
               resp[1].body.goals_canceling[k].stamp
                 = goals[resp[1].body.goals_canceling[k].goal_id].accepted_time
          /\ resp[1].body.return_code = IF canceled = {} THEN "Rejected" ELSE "None"
          /\ DOMAIN goals' = DOMAIN goals
          /\ \A g \in DOMAIN goals :
               IF g \in canceled
               THEN goals'[g] = [goals[g] EXCEPT !.status = Canceling]
               ELSE goals'[g] = goals[g]]_vars

\* respond_to_cancel_requests was given one goal of two that are Executing: the one
\* is Canceling and listed, the other is still Executing.
C23_Witness ==
  /\ ret.op = "respond_to_cancel_requests"
  /\ Len(ret.handle_goals) = 1
  /\ \E i \in DOMAIN out : /\ out[i].kind = "cancel_response"
                           /\ out[i].body.return_code = "None"
                           /\ Len(out[i].body.goals_canceling) = 1
  /\ \E g \in DOMAIN goals, h \in DOMAIN goals :
       /\ g = ret.handle_goals[1] /\ goals[g].status = Canceling
       /\ h # g /\ goals[h].status = Executing

\* C24: a goal that was rejected keeps the status Unknown through every later call,
\* and no later call succeeds in processing it: no goal response is written for it
\* again.
C24_RejectedStaysUnknown ==
  [][\A g \in DOMAIN goals :
       Rejected(g) =>
         /\ goals'[g].status = Unknown
         /\ \A h \in hNew :
              h.goal_id = g => h.req_id \notin Delivered(out', "goal_response")]_vars

\* C25: a send_result_response that succeeds with the request id it found in
\* result_requests takes the entry out: afterwards result_requests has no entry for
\* the goal.
C25_BufferedRequestConsumed ==
  [][\A g \in DOMAIN result_requests :
       (ret'.op = "send_result_response" /\ ret'.goal = g /\ ret'.code = "Ok"
        /\ pc.op = "idle")
         => g \notin DOMAIN result_requests']_vars

C27_AbortOnlyFromAcceptedOrExecuting ==
  [][\A g \in DOMAIN goals :
       (ret'.op \in {"abort_accepted_goal", "abort_executing_goal"} /\ ret'.goal = g) =>
         IF goals[g].status \in {Accepted, Executing}
         THEN /\ ret'.code = "Ok"
              /\ goals' = [goals EXCEPT ![g].status = Aborted]
              /\ Len(out') = 1 /\ out'[1].kind = "status"
         ELSE /\ ret'.code = "WrongGoalState"
              /\ goals' = goals
              /\ out' = <<>>]_vars

\* abort_executing_goal was called for a goal that is Canceling and returned
\* WrongGoalState.
C27_Witness ==
  /\ ret.op = "abort_executing_goal"
  /\ ret.code = "WrongGoalState"
  /\ goals[ret.goal].status = Canceling

\* C28: publish_feedback returns Ok only for a goal that is Executing and then writes
\* one FeedbackMessage, with the goal id of the handle; for a goal of any other status
\* it returns WrongGoalState and writes nothing. Either way the registry and
\* result_requests are as they were and no status array is published.
C28_FeedbackOnlyWhileExecuting ==
  [][\A g \in DOMAIN goals :
       (ret'.op = "publish_feedback" /\ ret'.goal = g) =>
         /\ goals' = goals
         /\ result_requests' = result_requests
         /\ \A i \in DOMAIN out' : out'[i].kind # "status"
         /\ IF goals[g].status = Executing
            THEN /\ ret'.code = "Ok"
                 /\ Len(out') = 1
                 /\ out'[1].kind = "feedback" /\ out'[1].body.goal_id = g
            ELSE ret'.code = "WrongGoalState" /\ out' = <<>>]_vars

\* publish_feedback succeeded for one goal while another goal is Canceling and a result
\* request is buffered.
C28_Witness ==
  /\ ret.op = "publish_feedback" /\ ret.code = "Ok"
  /\ result_requests # <<>>
  /\ \E h \in DOMAIN goals : h # ret.goal /\ goals[h].status = Canceling

\* The goal responses among msgs.
GoalResponses(msgs) == SelectSeq(msgs, LAMBDA m : m.kind = "goal_response")

\* C29: accept_goal and reject_goal proceed for a goal that is Unknown:
\* accept_goal sets Accepted and an accepted_time and writes one goal response with
\* accepted = true and that time, on the request id of the handle; reject_goal writes
\* one goal response with accepted = false on the request id of the handle and leaves
\* the record Unknown with no accepted_time. start_executing_goal proceeds for a goal
\* that is Accepted and sets Executing. For every other status each returns
\* WrongGoalState and changes and writes nothing.
C29_AcceptRejectStartPreconditions ==
  [][\A g \in DOMAIN goals :
       /\ (ret'.op = "accept_goal" /\ ret'.goal = g) =>
            IF goals[g].status = Unknown
            THEN /\ ret'.code = "Ok"
                 /\ goals'[g].status = Accepted
                 /\ goals'[g].accepted_time # NoTime
                 /\ \A k \in DOMAIN goals : k # g => goals'[k] = goals[k]
                 /\ Len(GoalResponses(out')) = 1
                 /\ GoalResponses(out')[1].req = ret'.req
                 /\ GoalResponses(out')[1].body
                      = [accepted |-> TRUE, stamp |-> goals'[g].accepted_time]
                 /\ [goal_id |-> g, req_id |-> ret'.req] \in hNew
            ELSE ret'.code = "WrongGoalState" /\ goals' = goals /\ out' = <<>>
       /\ (ret'.op = "reject_goal" /\ ret'.goal = g) =>
            IF goals[g].status = Unknown
            THEN /\ ret'.code = "Ok"
                 /\ goals' = goals
                 /\ goals'[g] = [status |-> Unknown, accepted_time |-> NoTime]
                 /\ Len(out') = 1 /\ out'[1].kind = "goal_response"
                 /\ out'[1].req = ret'.req
                 /\ out'[1].body.accepted = FALSE
                 /\ [goal_id |-> g, req_id |-> ret'.req] \in hNew
            ELSE ret'.code = "WrongGoalState" /\ goals' = goals /\ out' = <<>>
       /\ (ret'.op = "start_executing_goal" /\ ret'.goal = g) =>
            IF goals[g].status = Accepted
            THEN /\ ret'.code = "Ok"
                 /\ goals' = [goals EXCEPT ![g].status = Executing]
            ELSE ret'.code = "WrongGoalState" /\ goals' = goals /\ out' = <<>>]_vars

\* reject_goal was called with the handle of a goal that is Executing and returned
\* WrongGoalState.
C29_Witness ==
  /\ ret.op = "reject_goal"
  /\ ret.code = "WrongGoalState"
  /\ goals[ret.goal].status = Executing

\* C30: for a cancel request with a timestamp that is not zero, every goal that is
\* Accepted or Executing and was accepted at or before the timestamp is among the
\* goals of the CancelHandle, and so is the goal with the request's goal id.
C30_CancelAtOrBefore ==
  ret.op = "receive_cancel_request" /\ ret.stamp # TimeZERO =>
    \A g \in DOMAIN goals :
      (/\ goals[g].status \in {Accepted, Executing}
       /\ \/ g = ret.goal
          \/ (goals[g].accepted_time # NoTime /\ goals[g].accepted_time <= ret.stamp))
        => \E i \in DOMAIN ret.handle_goals : ret.handle_goals[i] = g

\* C31: cancel_goal(id) writes the request (id, ZERO), cancel_all_goals_before(ts)
\* writes (ZERO, ts) and cancel_all_goals() writes (ZERO, ZERO); the CancelHandle the
\* server makes of the request of cancel_goal(id), id not zero, lists no goal but id,
\* and the one it makes of the request of cancel_all_goals() lists every goal that is
\* Accepted or Executing.
C31_ClientCancelEncoding ==
  [][ret'.op = "receive_cancel_request" =>
       LET listed == {ret'.handle_goals[i] : i \in DOMAIN ret'.handle_goals}
       IN /\ ret'.goal = cret.value[1].goal_id /\ ret'.stamp = cret.value[1].stamp
          /\ cret.op = "cancel_goal" =>
               /\ cret.value[1].goal_id = cret.id /\ cret.value[1].stamp = TimeZERO
               /\ cret.id # GoalIdZERO => listed \subseteq {cret.id}
          /\ cret.op = "cancel_all_goals_before" =>
               cret.value[1].goal_id = GoalIdZERO /\ cret.value[1].stamp = cret.id
          /\ cret.op = "cancel_all_goals" =>
               /\ cret.value[1].goal_id = GoalIdZERO /\ cret.value[1].stamp = TimeZERO
               /\ listed = {g \in DOMAIN goals : goals[g].status \in {Accepted, Executing}}]_vars

\* The server made a CancelHandle of the request of cancel_goal(id): it lists id and
\* not the other goal, which is Accepted too and was accepted earlier.
C31_Witness ==
  /\ ret.op = "receive_cancel_request"
  /\ ret.goal # GoalIdZERO /\ ret.stamp = TimeZERO
  /\ ret.handle_goals = <<ret.goal>>
  /\ \E h \in DOMAIN goals :
       /\ h # ret.goal /\ goals[h].status = Accepted
       /\ goals[h].accepted_time < goals[ret.goal].accepted_time

\* C32: a goal request is answered at most once: no goal response is written on a
\* request id on which one was written before.
C32_AtMostOneGoalResponse ==
  [][\A req_id \in goalResponded :
       req_id \notin Delivered(out', "goal_response")]_vars

\* C33: a result request the server reads is answered by the call that read it or is
\* held in result_requests when that call goes on, and an entry of result_requests
\* is not replaced while its goal has no result response.
C33_NoResultRequestLost ==
  [][/\ Len(resultQ') < Len(resultQ) =>
          LET rq == Head(resultQ)
          IN \/ rq.req_id \in Delivered(out', "result")
             \/ /\ rq.goal_id \in DOMAIN result_requests'
                /\ result_requests'[rq.goal_id] = rq.req_id
     /\ \A g \in DOMAIN result_requests :
          g \notin resultSent =>
            /\ g \in DOMAIN result_requests'
            /\ result_requests'[g] = result_requests[g]]_vars

\* C34: every goal that is Accepted has an AcceptedGoalHandle in the caller's hands:
\* accept_goal returned one when it set the status.
C34_AcceptedGoalHasHandle ==
  \A g \in DOMAIN goals : goals[g].status = Accepted => g \in hAcc

\* C35: no call takes a record out of the registry; no call made with a handle of the
\* server returns NoSuchGoal; and a goal request for a goal id that is in the registry,
\* whatever became of that goal, is discarded: it changes no record and yields no
\* handle.
C35_RegistryOnlyGrows ==
  [][/\ DOMAIN goals \subseteq DOMAIN goals'
     /\ ret'.code # "NoSuchGoal"
     /\ (ret'.op = "receive_new_goal" /\ ret'.goal \in DOMAIN goals) =>
          /\ goals' = goals
          /\ hNew' = hNew
          /\ ret'.req \in discarded'
          /\ ret'.code = "Pending"]_vars

\* receive_new_goal has read and discarded a goal request for the id of a goal that
\* is finished.
C35_Witness ==
  /\ ret.op = "receive_new_goal"
  /\ ret.req \in discarded
  /\ ret.goal \in DOMAIN goals
  /\ goals[ret.goal].status \in Terminal

\* C36: wherever a call reports the stamp of a goal it is the accepted_time of the
\* registry: in the goal response of accept_goal, in the entry of the goal in a status
\* array and in its GoalInfo in a cancel response; the entry of a goal that has no
\* accepted_time carries Time::ZERO.
C36_OneAcceptanceStamp ==
  [][\A i \in DOMAIN out' :
       /\ (out'[i].kind = "goal_response" /\ out'[i].body.accepted) =>
            /\ goals'[ret'.goal].accepted_time \in Times
            /\ out'[i].body.stamp = goals'[ret'.goal].accepted_time
       /\ out'[i].kind = "status" =>
            \A k \in DOMAIN out'[i].body :
              LET e == out'[i].body[k]
              IN IF goals'[e.goal_id].accepted_time \in Times
                 THEN e.stamp = goals'[e.goal_id].accepted_time
                 ELSE e.stamp = TimeZERO /\ goals'[e.goal_id].status = Unknown
       /\ out'[i].kind = "cancel_response" =>
            \A k \in DOMAIN out'[i].body.goals_canceling :
              LET e == out'[i].body.goals_canceling[k]
              IN /\ goals'[e.goal_id].accepted_time \in Times
                 /\ e.stamp = goals'[e.goal_id].accepted_time]_vars

\* respond_to_cancel_requests has listed a goal with its stamp, and the status array
\* it published has that stamp for the goal and another stamp for a goal accepted at
\* another time.
C36_Witness ==
  /\ ret.op = "respond_to_cancel_requests"
  /\ \E i \in DOMAIN out, j \in DOMAIN out :
       /\ out[i].kind = "cancel_response" /\ Len(out[i].body.goals_canceling) = 1
       /\ out[j].kind = "status" /\ Len(out[j].body) = 2
       /\ \E k \in DOMAIN out[j].body, m \in DOMAIN out[j].body :
            /\ out[j].body[k].goal_id = out[i].body.goals_canceling[1].goal_id
            /\ out[j].body[k].stamp = out[i].body.goals_canceling[1].stamp
            /\ out[j].body[m].stamp \in Times
            /\ out[j].body[m].stamp # out[j].body[k].stamp

\* C37: in the registry a goal has no accepted_time exactly when its status is
\* Unknown; with every other status it has one.
C37_AcceptedTimeIffNotUnknown ==
  \A g \in DOMAIN goals :
    /\ goals[g].accepted_time = NoTime <=> goals[g].status = Unknown
    /\ goals[g].status # Unknown => goals[g].accepted_time \in Times

\* One goal was rejected and is Unknown with no accepted_time, another went through
\* to Canceled and has its accepted_time.
C37_Witness ==
  \E g \in DOMAIN goals, h \in DOMAIN goals :
    /\ Rejected(g) /\ goals[g].accepted_time = NoTime
    /\ goals[h].status = Canceled /\ goals[h].accepted_time \in Times

====
